---------------------------- MODULE Spec2Model ----------------------------
(***************************************************************************)
(* The Game Blaster / Creative Music System device of                      *)
(* src/src/hardware/gameblaster.cpp: two SAA-1099 chips behind four write  *)
(* ports, a render clock (last_rendered_ms) that is caught up to the       *)
(* emulated time on every register write, a FIFO of resampled frames that  *)
(* the mixer's audio callback drains, and the detection register of the    *)
(* standalone card.                                                        *)
(*                                                                         *)
(* Time is counted in ticks of the emulated clock; one render step covers  *)
(* ms_per_render ticks.  The chips, the resamplers and the mixer channel   *)
(* are collaborators whose code is not part of gameblaster.cpp: they are   *)
(* modelled by their contracts (apply a byte, render one sample; push one  *)
(* input, report whether an output is ready, pop it; wake up, take a       *)
(* frame).                                                                 *)
(***************************************************************************)
EXTENDS Integers, Sequences, FiniteSets, TLC

VARIABLES
    now,                       \* PIC_FullIndex(): the emulated time
    channel,                   \* the mixer channel (the sink)
    sink,                      \* frames the channel was handed, in order
    last_rendered_ms,          \* the render clock
    devices,                   \* the two SAA-1099 chips
    resamplers,                \* the two resamplers
    fifo,                      \* frames rendered ahead of the callback
    buf,                       \* MaybeRenderFrame's static sample buffer
    is_open,
    is_standalone_gameblaster,
    base_port,
    write_handlers,            \* ports of the four chip write handlers
    read_handler_for_detection,
    write_handler_for_detection,
    cms_detect_register,
    cms_filter,                \* the persisted "cms_filter" setting
    op,                        \* the operation that ran last, and what it did
    last_write_ms,             \* timestamp of the last byte applied to a chip
    enqueued,                  \* the frames ever put in the fifo, in order
    aborted,                   \* an assertion failed: the program is over
    detect_written,            \* the last byte written to offset 6 or 7
    scenario,                  \* how far the run has followed the Scenario
    paths                      \* where the write handler and the callback are

vars == <<now, channel, sink, last_rendered_ms, devices, resamplers, fifo, buf,
          is_open, is_standalone_gameblaster, base_port, write_handlers,
          read_handler_for_detection, write_handler_for_detection,
          cms_detect_register, cms_filter, op, last_write_ms, enqueued,
          aborted, detect_written, scenario, paths>>

self_vars == <<channel, sink, last_rendered_ms, devices, resamplers, fifo, buf,
               is_open, is_standalone_gameblaster, base_port, write_handlers,
               read_handler_for_detection, write_handler_for_detection,
               cms_detect_register, cms_filter, enqueued, aborted>>

----------------------------------------------------------------------------
(* Bounds of the model *)

\* ticks of the emulated clock in one render step
TicksPerQuantum == 1
\* render steps the resampler takes in for each frame it gives out
RenderPerFrame == 2
\* the emulated clock stops here
MaxNow == 5
\* sound_stream_update calls per chip over a run
MaxRenders == 4
\* frames one audio callback may ask for
MaxRequest == 2

\* the bytes a guest writes to the chips in the model
Bytes == {85}

\* the bytes tried on the detection ports
DetectBytes == {0, 85, 127, 255}

\* the sbtype, sbbase and cms_filter settings tried in the model
CardChoices == {"gb", "sb1"}

PortChoices == {528, 544, 640}

FilterChoices == {"on", "off", "banana", "lpf 1 6000"}

----------------------------------------------------------------------------
(* The collaborators, by their contracts *)

ms_per_render == TicksPerQuantum

\* saa1099_device after device_start()
NewChip == [control |-> 0, data |-> 0, updates |-> 0]

data_w(chip, value) == [chip EXCEPT !.data = value]

control_w(chip, value) == [chip EXCEPT !.control = value]

\* sound_stream_update(stream, nullptr, p_buf, 1): one sample per side, and
\* the chip has moved on by one sample
SoundStreamSample(chip) == <<chip.data, chip.control>>

sound_stream_update(chip) == [chip EXCEPT !.updates = @ + 1]

\* reSIDfp::TwoPassSincResampler::create(...)
NewResampler == [phase |-> 0, sample |-> 0]

\* input(x): takes one sample in; an output is ready every RenderPerFrame-th
ResamplerInput(r, x) ==
    [phase |-> (r.phase + 1) % RenderPerFrame, sample |-> x]

ResamplerReady(r) == r.phase = 0

ResamplerOutput(r) == r.sample

\* MixerChannel::WakeUp(): whether the channel was asleep; it is awake after
WakeUp(ch) == ch.asleep

Woken(ch) == [ch EXCEPT !.asleep = FALSE]

----------------------------------------------------------------------------
(* The GameBlaster object, with the channel it feeds and the persisted     *)
(* setting it may rewrite, gathered in one record for the operations       *)

Self ==
    [last_rendered_ms |-> last_rendered_ms, devices |-> devices,
     resamplers |-> resamplers, fifo |-> fifo, buf |-> buf,
     channel |-> channel, sink |-> sink, enqueued |-> enqueued,
     is_open |-> is_open,
     is_standalone_gameblaster |-> is_standalone_gameblaster,
     base_port |-> base_port, write_handlers |-> write_handlers,
     read_handler_for_detection |-> read_handler_for_detection,
     write_handler_for_detection |-> write_handler_for_detection,
     cms_detect_register |-> cms_detect_register, cms_filter |-> cms_filter,
     aborted |-> aborted]

SetSelf(e) ==
    /\ last_rendered_ms' = e.last_rendered_ms
    /\ devices' = e.devices
    /\ resamplers' = e.resamplers
    /\ fifo' = e.fifo
    /\ buf' = e.buf
    /\ channel' = e.channel
    /\ sink' = e.sink
    /\ enqueued' = e.enqueued
    /\ is_open' = e.is_open
    /\ is_standalone_gameblaster' = e.is_standalone_gameblaster
    /\ base_port' = e.base_port
    /\ write_handlers' = e.write_handlers
    /\ read_handler_for_detection' = e.read_handler_for_detection
    /\ write_handler_for_detection' = e.write_handler_for_detection
    /\ cms_detect_register' = e.cms_detect_register
    /\ cms_filter' = e.cms_filter
    /\ aborted' = e.aborted

\* channel->AddSamples_sfloat(1, frame)
AddSamples(e, frame, from) ==
    [e EXCEPT !.sink = Append(@, [frame |-> frame, from |-> from])]

\* bool GameBlaster::MaybeRenderFrame(AudioFrame &frame): the engine after the
\* call, whether a frame is ready, and the frame
MaybeRenderFrame(e) ==
    LET s0 == SoundStreamSample(e.devices[1])
        s1 == SoundStreamSample(e.devices[2])
        left_accum == s0[1] + s1[1]
        right_accum == s0[2] + s1[2]
        r0 == ResamplerInput(e.resamplers[1], left_accum)
        r1 == ResamplerInput(e.resamplers[2], right_accum)
        frame_is_ready == ResamplerReady(r0) /\ ResamplerReady(r1)
        d0 == sound_stream_update(e.devices[1])
        d1 == sound_stream_update(e.devices[2])
    IN  [e |-> [e EXCEPT !.devices = <<d0, d1>>,
                         !.buf = s1,
                         !.last_rendered_ms = @ + ms_per_render,
                         !.resamplers = <<r0, r1>>],
         ready |-> frame_is_ready,
         frame |-> [seq |-> d0.updates,
                    left |-> ResamplerOutput(r0),
                    right |-> ResamplerOutput(r1)]]

\* fifo.emplace(f)
FifoEmplace(e, frame) ==
    [e EXCEPT !.fifo = Append(@, frame), !.enqueued = Append(@, frame)]

\* the body of RenderUpToNow's loop
RenderStep(e) ==
    LET r == MaybeRenderFrame(
                 [e EXCEPT !.last_rendered_ms = @ + ms_per_render])
    IN  IF r.ready THEN FifoEmplace(r.e, r.frame) ELSE r.e

\* KeepRendering with <= for <: one more step when the clock is at now
KeepRendering_Inclusive(e, t) == e.last_rendered_ms <= t

\* while (last_rendered_ms < now)
KeepRendering(e, t) == e.last_rendered_ms < t

RECURSIVE RenderLoop(_, _)
RenderLoop(e, t) ==
    IF KeepRendering(e, t) THEN RenderLoop(RenderStep(e), t) ELSE e

\* RenderUpToNow without the early return on wake-up
RenderUpToNow_IgnoresWake(e, t) ==
    RenderLoop([e EXCEPT !.channel = Woken(@)], t)

\* void GameBlaster::RenderUpToNow()
RenderUpToNow(e, t) ==
    IF WakeUp(e.channel)
    THEN [e EXCEPT !.channel = Woken(@), !.last_rendered_ms = t]
    ELSE RenderLoop(e, t)

\* WriteDataToLeftDevice with its two statements swapped
WriteDataToLeftDevice_WriteFirst(e, t, value) ==
    RenderUpToNow([e EXCEPT !.devices[1] = data_w(@, value)], t)

\* the four register-write handlers
WriteDataToLeftDevice(e, t, value) ==
    LET c == RenderUpToNow(e, t)
    IN  [c EXCEPT !.devices[1] = data_w(@, value)]

WriteControlToLeftDevice(e, t, value) ==
    LET c == RenderUpToNow(e, t)
    IN  [c EXCEPT !.devices[1] = control_w(@, value)]

WriteDataToRightDevice(e, t, value) ==
    LET c == RenderUpToNow(e, t)
    IN  [c EXCEPT !.devices[2] = data_w(@, value)]

WriteControlToRightDevice(e, t, value) ==
    LET c == RenderUpToNow(e, t)
    IN  [c EXCEPT !.devices[2] = control_w(@, value)]

\* fifo.back() for fifo.front()
FifoFront_Back(q) == q[Len(q)]

\* fifo.front() and fifo.pop()
FifoFront(q) == Head(q)

FifoPop(q) == Tail(q)

\* first, add any frames we've queued since the last callback
RECURSIVE DrainFifo(_, _)
DrainFifo(e, frames_remaining) ==
    IF frames_remaining > 0 /\ Len(e.fifo) > 0
    THEN DrainFifo([AddSamples(e, FifoFront(e.fifo), "fifo")
                        EXCEPT !.fifo = FifoPop(e.fifo)],
                   frames_remaining - 1)
    ELSE [e |-> e, frames_remaining |-> frames_remaining]

\* if the queue's run dry, render the remainder
RECURSIVE RenderRemainder(_, _)
RenderRemainder(e, frames_remaining) ==
    IF frames_remaining > 0
    THEN LET r == MaybeRenderFrame(e)
         IN  RenderRemainder(IF r.ready THEN AddSamples(r.e, r.frame, "live")
                                        ELSE r.e,
                             frames_remaining - 1)
    ELSE e

\* the callback without its last statement
SyncTimeDatum_Skipped(e, t) == e

\* the callback setting the clock one render step short of now
SyncTimeDatum_OneStepShort(e, t) ==
    [e EXCEPT !.last_rendered_ms = t - ms_per_render]

\* and sync-up our time datum
SyncTimeDatum(e, t) == [e EXCEPT !.last_rendered_ms = t]

\* the callback rendering all it is asked for without looking at the fifo
AudioCallback_SkipsDrain(e, t, requested_frames) ==
    SyncTimeDatum(RenderRemainder(e, requested_frames), t)

\* void GameBlaster::AudioCallback(const uint16_t requested_frames)
AudioCallback(e, t, requested_frames) ==
    LET d == DrainFifo(e, requested_frames)
    IN  SyncTimeDatum(RenderRemainder(d.e, d.frames_remaining), t)

----------------------------------------------------------------------------
(* The detection register of the standalone card *)

\* WriteToDetectionPort with case 0x5 falling into the store as well
WriteToDetectionPort_AlsoAtFive(e, port, value) ==
    IF port - e.base_port \in {5, 6, 7}
    THEN [e EXCEPT !.cms_detect_register = value]
    ELSE e

\* void GameBlaster::WriteToDetectionPort(io_port_t port, io_val_t value, ...)
WriteToDetectionPort(e, port, value) ==
    IF port - e.base_port \in {6, 7}
    THEN [e EXCEPT !.cms_detect_register = value]
    ELSE e

\* ReadFromDetectionPort without the break after case 0x4
ReadFromDetectionPort_FallsThrough(e, port) ==
    CASE port - e.base_port \in {4, 10, 11} -> e.cms_detect_register
      [] OTHER -> 255

\* uint8_t GameBlaster::ReadFromDetectionPort(io_port_t port, ...) const
ReadFromDetectionPort(e, port) ==
    CASE port - e.base_port = 4 -> 127
      [] port - e.base_port \in {10, 11} -> e.cms_detect_register
      [] OTHER -> 255

----------------------------------------------------------------------------
(* Open and Close *)

valid_gb_ports == {528, 544, 560, 576, 592, 608}

valid_cms_ports == {544, 576, 608, 640, 672, 704, 736, 768}

\* parse_bool_setting: the value of a boolean-like setting, "none" otherwise
ParseBoolSetting(s) ==
    CASE s = "on" -> "true" [] s = "off" -> "false" [] OTHER -> "none"

\* MixerChannel::TryParseAndSetCustomFilter
TryParseCustomFilter(s) == s = "lpf 1 6000"

\* the channel handle when it points at nothing
NoChannel ==
    [exists |-> FALSE, registered |-> FALSE, asleep |-> FALSE,
     lowpass |-> "unset", order |-> 0, cutoff_hz |-> 0]

\* MIXER_AddChannel(...): a channel the mixer has registered; it may or may
\* not start out asleep
AddChannel(starts_asleep) ==
    [exists |-> TRUE, registered |-> TRUE, asleep |-> starts_asleep,
     lowpass |-> "unset", order |-> 0, cutoff_hz |-> 0]

\* MixerChannel::Enable: a channel that is not enabled is the one WakeUp
\* finds asleep
Enable(c, should_enable) == [c EXCEPT !.asleep = ~should_enable]

\* Drop access to the IO ports, the detection handlers left in place
UninstallHandlers_ChipPortsOnly(e) ==
    [e EXCEPT !.write_handlers = <<{}, {}, {}, {}>>]

\* Drop access to the IO ports
UninstallHandlers(e) ==
    [e EXCEPT !.write_handlers = <<{}, {}, {}, {}>>,
              !.write_handler_for_detection = {},
              !.read_handler_for_detection = {}]

\* Stop playback
StopPlayback(e) ==
    IF e.channel.exists THEN [e EXCEPT !.channel = Enable(@, FALSE)] ELSE e

\* Deregister the mixer channel and remove it
DeregisterChannel(e) == [e EXCEPT !.channel.registered = FALSE]

ResetChannel(e) == [e EXCEPT !.channel = NoChannel]

\* Remove the SAA-1099 devices and resamplers
RemoveDevices(e) == [e EXCEPT !.devices = <<>>]

RemoveResamplers(e) == [e EXCEPT !.resamplers = <<>>]

\* Close with the channel, the devices and the resamplers torn down before
\* the handlers are uninstalled
CloseStates_TeardownFirst(e) ==
    LET s1 == StopPlayback(e)
        s2 == DeregisterChannel(s1)
        s3 == ResetChannel(s2)
        s4 == RemoveDevices(s3)
        s5 == RemoveResamplers(s4)
        s6 == UninstallHandlers(s5)
    IN  <<s1, s2, s3, s4, s5, s6, [s6 EXCEPT !.is_open = FALSE]>>

\* the states an open device goes through in Close, one after each group of
\* statements, the last being the state Close returns in
CloseStates(e) ==
    LET s1 == UninstallHandlers(e)
        s2 == StopPlayback(s1)
        s3 == DeregisterChannel(s2)
        s4 == ResetChannel(s3)
        s5 == RemoveDevices(s4)
        s6 == RemoveResamplers(s5)
    IN  <<s1, s2, s3, s4, s5, s6, [s6 EXCEPT !.is_open = FALSE]>>

\* void GameBlaster::Close()
Close(e) ==
    IF ~e.is_open
    THEN e
    ELSE LET s == CloseStates(e) IN s[Len(s)]

\* the assertion on the port with the standalone card's list for both cards
PortIsValid_AsForGameBlaster(e) == e.base_port \in valid_gb_ports

\* assert(contains(valid_ports, base_port))
PortIsValid(e) ==
    e.base_port \in (IF e.is_standalone_gameblaster THEN valid_gb_ports
                                                    ELSE valid_cms_ports)

\* the four chip write handlers, one port each
InstallWriteHandlers(e) ==
    [e EXCEPT !.write_handlers =
                  <<{e.base_port}, {e.base_port + 1},
                    {e.base_port + 2}, {e.base_port + 3}>>]

\* the detection handlers installed whatever the card
InstallDetectionHandlers_AnyCard(e) ==
    [e EXCEPT !.read_handler_for_detection = e.base_port .. e.base_port + 15,
              !.write_handler_for_detection =
                  e.base_port + 4 .. e.base_port + 15]

\* the detection handlers, only if the card type is a Game Blaster: sixteen
\* ports to read from base_port, twelve to write from base_port + 4
InstallDetectionHandlers(e) ==
    IF e.is_standalone_gameblaster
    THEN [e EXCEPT
             !.read_handler_for_detection = e.base_port .. e.base_port + 15,
             !.write_handler_for_detection =
                 e.base_port + 4 .. e.base_port + 15]
    ELSE e

Order == 1

CutoffFreqHz == 6000

\* auto enable_filter = [&]()
EnableFilter(c) ==
    [c EXCEPT !.order = Order, !.cutoff_hz = CutoffFreqHz, !.lowpass = "on"]

\* the filter part of Open with a fallback that leaves the setting alone
SetUpFilter_KeepsSetting(e, filter_choice) ==
    CASE ParseBoolSetting(filter_choice) = "false" ->
             [e EXCEPT !.channel.lowpass = "off"]
      [] TryParseCustomFilter(filter_choice) ->
             [e EXCEPT !.channel.lowpass = "custom"]
      [] OTHER -> [e EXCEPT !.channel = EnableFilter(@)]

\* the filter part of Open: the channel's filter and the persisted setting
SetUpFilter(e, filter_choice) ==
    CASE ParseBoolSetting(filter_choice) = "true" ->
             [e EXCEPT !.channel = EnableFilter(@)]
      [] ParseBoolSetting(filter_choice) = "false" ->
             [e EXCEPT !.channel.lowpass = "off"]
      [] TryParseCustomFilter(filter_choice) ->
             [e EXCEPT !.channel.lowpass = "custom"]
      [] OTHER ->
             [e EXCEPT !.cms_filter = "on", !.channel = EnableFilter(@)]

\* void GameBlaster::Open(port_choice, card_choice, filter_choice); a failed
\* assertion ends the program where it stands
Open(e, port_choice, card_choice, filter_choice, starts_asleep) ==
    LET c == Close(e)
        p == [c EXCEPT !.is_standalone_gameblaster = (card_choice = "gb"),
                       !.base_port = port_choice]
        d == [p EXCEPT !.devices = <<NewChip, NewChip>>]
        h == InstallDetectionHandlers(InstallWriteHandlers(d))
        a == [h EXCEPT !.channel = AddChannel(starts_asleep)]
        f == SetUpFilter(a, filter_choice)
    IN  IF ~PortIsValid(p)
        THEN [p EXCEPT !.aborted = TRUE]
        ELSE [f EXCEPT !.resamplers = <<NewResampler, NewResampler>>,
                       !.is_open = TRUE]

----------------------------------------------------------------------------
(* The steps of the system *)

\* neither the write handler nor the audio callback has been entered
NoPath == [write |-> [at |-> "idle"], callback |-> [at |-> "idle"]]

Did(kind, a, value, e) ==
    [kind |-> kind,
     a |-> IF kind \in {"write", "detect_read", "detect_write"} THEN a ELSE 0,
     value |-> value,
     woke |-> kind = "write" /\ WakeUp(channel),
     from |-> last_rendered_ms,
     n |-> IF kind = "callback" THEN a ELSE 0,
     steps |-> IF e.is_open /\ is_open
               THEN e.devices[1].updates - devices[1].updates ELSE 0,
     delivered |-> Len(e.sink) - Len(sink)]

\* the time the Scenario waits until before it asks for a frame
ScenarioTime == MaxNow

\* the Scenario: on a Game Blaster just opened at 220h, a byte to the left
\* chip's data port and one to its control port at time 0, then nothing
\* until ScenarioTime, then a callback for one frame.  Any other step leaves
\* the Scenario.
Follow(kind, a) ==
    CASE scenario = "opened" /\ kind = "write" /\ a = 0 /\ now = 0 -> "data"
      [] scenario = "data" /\ kind = "write" /\ a = 1 /\ now = 0 -> "control"
      [] scenario = "control" /\ kind = "tick" /\ now + a = ScenarioTime ->
             "waited"
      [] scenario = "waited" /\ kind = "callback" /\ a = 1 -> "asked"
      [] OTHER -> "off"

\* the emulated clock moves on
Tick(d) ==
    /\ ~aborted
    /\ now + d <= MaxNow
    /\ now' = now + d
    /\ op' = Did("tick", d, 0, Self)
    /\ scenario' = Follow("tick", d)
    /\ UNCHANGED <<self_vars, last_write_ms, detect_written, paths>>

\* the mixer puts the idle channel to sleep
ChannelSleeps ==
    /\ ~aborted
    /\ channel.exists /\ ~channel.asleep
    /\ SetSelf([Self EXCEPT !.channel.asleep = TRUE])
    /\ op' = Did("sleep", 0, 0, Self)
    /\ scenario' = Follow("sleep", 0)
    /\ UNCHANGED <<now, last_write_ms, detect_written, paths>>

\* a byte written to one of the four chip ports
ChipWrite(offset, e, value) ==
    /\ ~aborted
    /\ e.devices[1].updates <= MaxRenders
    /\ SetSelf(e)
    /\ op' = Did("write", offset, value, e)
    /\ last_write_ms' = now
    /\ scenario' = Follow("write", offset)
    /\ UNCHANGED <<now, detect_written, paths>>

DataToLeft(value) ==
    /\ write_handlers[1] # {}
    /\ ChipWrite(0, WriteDataToLeftDevice(Self, now, value), value)

ControlToLeft(value) ==
    /\ write_handlers[2] # {}
    /\ ChipWrite(1, WriteControlToLeftDevice(Self, now, value), value)

DataToRight(value) ==
    /\ write_handlers[3] # {}
    /\ ChipWrite(2, WriteDataToRightDevice(Self, now, value), value)

ControlToRight(value) ==
    /\ write_handlers[4] # {}
    /\ ChipWrite(3, WriteControlToRightDevice(Self, now, value), value)

\* the mixer asks the channel's callback for frames
Callback(requested_frames) ==
    /\ ~aborted
    /\ is_open
    /\ LET e == AudioCallback(Self, now, requested_frames)
       IN  /\ e.devices[1].updates <= MaxRenders
           /\ SetSelf(e)
           /\ op' = Did("callback", requested_frames, 0, e)
    /\ scenario' = Follow("callback", requested_frames)
    /\ UNCHANGED <<now, last_write_ms, detect_written, paths>>

\* a byte written to a port of the detection write handler
DetectWrite(port, value) ==
    /\ ~aborted
    /\ port \in write_handler_for_detection
    /\ SetSelf(WriteToDetectionPort(Self, port, value))
    /\ op' = Did("detect_write", port - base_port, value, Self)
    /\ detect_written' = IF port - base_port \in {6, 7} THEN <<value>>
                                                        ELSE detect_written
    /\ scenario' = Follow("detect_write", 0)
    /\ UNCHANGED <<now, last_write_ms, paths>>

\* a byte read from a port of the detection read handler
DetectRead(port) ==
    /\ ~aborted
    /\ port \in read_handler_for_detection
    /\ op' = Did("detect_read", port - base_port,
                 ReadFromDetectionPort(Self, port), Self)
    /\ scenario' = Follow("detect_read", 0)
    /\ UNCHANGED <<now, self_vars, last_write_ms, detect_written, paths>>

\* CMS_Init: Open with the sbbase, sbtype and cms_filter settings of the
\* section as the user left them
DoOpen(port_choice, card_choice, filter_choice, starts_asleep) ==
    /\ ~aborted
    /\ SetSelf(Open([Self EXCEPT !.cms_filter = filter_choice],
                    port_choice, card_choice, filter_choice, starts_asleep))
    /\ op' = Did("open", 0, 0, Self) @@
             [port |-> port_choice, card |-> card_choice,
              filter |-> filter_choice, was_open |-> is_open,
              was_standalone |-> is_standalone_gameblaster]
    /\ scenario' = Follow("open", 0)
    /\ UNCHANGED <<now, last_write_ms, detect_written, paths>>

\* CMS_ShutDown
DoClose ==
    /\ ~aborted
    /\ SetSelf(Close(Self))
    /\ op' = Did("close", 0, 0, Self) @@ [was_open |-> is_open]
    /\ scenario' = Follow("close", 0)
    /\ UNCHANGED <<now, last_write_ms, detect_written, paths>>

----------------------------------------------------------------------------
(* The two paths into the engine, statement by statement: a write to the   *)
(* left chip's data port, and the audio callback                           *)

\* an executor that starts an operation whatever else is under way
ExecutorFree_Unconfined == TRUE

\* the host runs the port handlers and the mixer's callback on one executor:
\* it starts an operation when the one before has returned
ExecutorFree ==
    paths.write.at = "idle" /\ paths.callback.at = "idle"

PathStep(e) ==
    /\ SetSelf(e)
    /\ op' = Did("path", 0, 0, e)
    /\ scenario' = Follow("path", 0)
    /\ UNCHANGED <<now, detect_written>>

\* the emulated clock moves on between two operations
TimePasses(d) == ExecutorFree /\ Tick(d)

\* WriteDataToLeftDevice is entered: RenderUpToNow asks the channel to wake
\* up and, if it was asleep, sets the clock and returns
WriteBegins(value) ==
    /\ ~aborted
    /\ write_handlers[1] # {}
    /\ ExecutorFree
    /\ IF WakeUp(channel)
       THEN /\ PathStep([Self EXCEPT !.channel = Woken(@),
                                     !.last_rendered_ms = now])
            /\ paths' = [paths EXCEPT
                            !.write = [at |-> "apply", value |-> value]]
       ELSE /\ PathStep([Self EXCEPT !.channel = Woken(@)])
            /\ paths' = [paths EXCEPT
                            !.write = [at |-> "render", value |-> value]]
    /\ UNCHANGED last_write_ms

\* one turn of RenderUpToNow's loop
WriteRenders ==
    /\ paths.write.at = "render"
    /\ KeepRendering(Self, now)
    /\ LET e == RenderStep(Self)
       IN  e.devices[1].updates <= MaxRenders /\ PathStep(e)
    /\ UNCHANGED <<paths, last_write_ms>>

\* RenderUpToNow has returned: devices[0]->data_w(0, value)
WriteApplies ==
    /\ \/ paths.write.at = "apply"
       \/ paths.write.at = "render" /\ ~KeepRendering(Self, now)
    /\ PathStep([Self EXCEPT !.devices[1] = data_w(@, paths.write.value)])
    /\ paths' = [paths EXCEPT !.write = [at |-> "idle"]]
    /\ last_write_ms' = now

\* AudioCallback is entered: frames_remaining = requested_frames
CallbackBegins(requested_frames) ==
    /\ ~aborted
    /\ is_open
    /\ ExecutorFree
    /\ PathStep(Self)
    /\ paths' = [paths EXCEPT
                    !.callback = [at |-> "drain",
                                  frames_remaining |-> requested_frames]]
    /\ UNCHANGED last_write_ms

\* one turn of the callback's first loop
CallbackDrains ==
    /\ paths.callback.at = "drain"
    /\ paths.callback.frames_remaining > 0 /\ Len(fifo) > 0
    /\ PathStep([AddSamples(Self, FifoFront(fifo), "fifo")
                     EXCEPT !.fifo = FifoPop(fifo)])
    /\ paths' = [paths EXCEPT !.callback.frames_remaining = @ - 1]
    /\ UNCHANGED last_write_ms

\* one turn of the callback's second loop, the first loop being over
CallbackRenders ==
    /\ \/ paths.callback.at = "render"
       \/ paths.callback.at = "drain" /\ Len(fifo) = 0
    /\ paths.callback.frames_remaining > 0
    /\ LET r == MaybeRenderFrame(Self)
           e == IF r.ready THEN AddSamples(r.e, r.frame, "live") ELSE r.e
       IN  e.devices[1].updates <= MaxRenders /\ PathStep(e)
    /\ paths' = [paths EXCEPT
                    !.callback = [at |-> "render",
                                  frames_remaining |-> @.frames_remaining - 1]]
    /\ UNCHANGED last_write_ms

\* both loops are over: last_rendered_ms = PIC_FullIndex()
CallbackEnds ==
    /\ paths.callback.at \in {"drain", "render"}
    /\ paths.callback.frames_remaining = 0
    /\ PathStep(SyncTimeDatum(Self, now))
    /\ paths' = [paths EXCEPT !.callback = [at |-> "idle"]]
    /\ UNCHANGED last_write_ms

----------------------------------------------------------------------------
(* The specifications *)

\* GameBlaster gameblaster: the object as constructed
Constructed(reg) ==
    [last_rendered_ms |-> 0, devices |-> <<>>, resamplers |-> <<>>,
     fifo |-> <<>>, buf |-> <<0, 0>>, channel |-> NoChannel, sink |-> <<>>,
     enqueued |-> <<>>, is_open |-> FALSE, is_standalone_gameblaster |-> FALSE,
     base_port |-> 0, write_handlers |-> <<{}, {}, {}, {}>>,
     read_handler_for_detection |-> {}, write_handler_for_detection |-> {},
     cms_detect_register |-> reg, cms_filter |-> "on", aborted |-> FALSE]

InitWith(e) ==
    /\ now = 0
    /\ last_rendered_ms = e.last_rendered_ms
    /\ devices = e.devices
    /\ resamplers = e.resamplers
    /\ fifo = e.fifo
    /\ buf = e.buf
    /\ channel = e.channel
    /\ sink = e.sink
    /\ enqueued = e.enqueued
    /\ is_open = e.is_open
    /\ is_standalone_gameblaster = e.is_standalone_gameblaster
    /\ base_port = e.base_port
    /\ write_handlers = e.write_handlers
    /\ read_handler_for_detection = e.read_handler_for_detection
    /\ write_handler_for_detection = e.write_handler_for_detection
    /\ cms_detect_register = e.cms_detect_register
    /\ cms_filter = e.cms_filter
    /\ aborted = e.aborted
    /\ last_write_ms = 0
    /\ detect_written = <<>>
    /\ paths = NoPath
    /\ op = [kind |-> "init", a |-> 0, value |-> 0, woke |-> FALSE,
             from |-> 0, n |-> 0, steps |-> 0, delivered |-> 0]

\* the engine: a Game Blaster opened at 220h, the clock, the guest's writes
\* to the chips and the mixer's callbacks
Init ==
    /\ \E starts_asleep \in BOOLEAN :
           InitWith(Open(Constructed(255), 544, "gb", "on", starts_asleep))
    /\ scenario = "opened"

Next ==
    \/ \E d \in 1 .. MaxNow : Tick(d)
    \/ ChannelSleeps
    \/ \E value \in Bytes : DataToLeft(value)
    \/ \E value \in Bytes : ControlToLeft(value)
    \/ \E value \in Bytes : DataToRight(value)
    \/ \E value \in Bytes : ControlToRight(value)
    \/ \E n \in 0 .. MaxRequest : Callback(n)

Spec == Init /\ [][Next]_vars

\* the device: opening and closing it, and the guest's port accesses, at a
\* standstill of the clock
InitDevice ==
    /\ \E reg \in DetectBytes : InitWith(Constructed(reg))
    /\ scenario = "off"

NextDevice ==
    \/ \E port_choice \in PortChoices, card_choice \in CardChoices,
          filter_choice \in FilterChoices, starts_asleep \in BOOLEAN :
          DoOpen(port_choice, card_choice, filter_choice, starts_asleep)
    \/ DoClose
    \/ \E value \in Bytes : DataToLeft(value)
    \/ \E value \in Bytes : ControlToLeft(value)
    \/ \E value \in Bytes : DataToRight(value)
    \/ \E value \in Bytes : ControlToRight(value)
    \/ \E port \in write_handler_for_detection, value \in DetectBytes :
          DetectWrite(port, value)
    \/ \E port \in read_handler_for_detection : DetectRead(port)

SpecDevice == InitDevice /\ [][NextDevice]_vars

\* the ports of a playing Game Blaster: the clock jumps ahead, the guest
\* writes to the chips, which renders into the fifo, and reads and writes
\* the detection ports
InitPorts ==
    /\ \E starts_asleep \in BOOLEAN :
           InitWith(Open(Constructed(255), 544, "gb", "on", starts_asleep))
    /\ scenario = "off"

NextPorts ==
    \/ Tick(MaxNow)
    \/ \E value \in Bytes : DataToLeft(value)
    \/ \E value \in Bytes : ControlToLeft(value)
    \/ \E value \in Bytes : DataToRight(value)
    \/ \E value \in Bytes : ControlToRight(value)
    \/ \E port \in write_handler_for_detection, value \in DetectBytes :
          DetectWrite(port, value)
    \/ \E port \in read_handler_for_detection : DetectRead(port)

SpecPorts == InitPorts /\ [][NextPorts]_vars

\* the two paths of a playing Game Blaster taken statement by statement
InitPaths ==
    /\ \E starts_asleep \in BOOLEAN :
           InitWith(Open(Constructed(255), 544, "gb", "on", starts_asleep))
    /\ scenario = "off"

NextPaths ==
    \/ \E d \in 1 .. MaxNow : TimePasses(d)
    \/ \E value \in Bytes : WriteBegins(value)
    \/ WriteRenders
    \/ WriteApplies
    \/ \E n \in 0 .. MaxRequest : CallbackBegins(n)
    \/ CallbackDrains
    \/ CallbackRenders
    \/ CallbackEnds

SpecPaths == InitPaths /\ [][NextPaths]_vars

----------------------------------------------------------------------------
(* The claims *)

CeilDiv(a, b) == (a + b - 1) \div b

\* the frames the callback took from the fifo, in the order the sink got them
DeliveredFromFifo ==
    LET taken == SelectSeq(sink, LAMBDA x : x.from = "fifo")
    IN  [i \in 1 .. Len(taken) |-> taken[i].frame]

\* the registers of the two chips, without the count of their render steps
Registers(d) == [i \in 1 .. Len(d) |-> <<d[i].control, d[i].data>>]

RenderCounts(d) == [i \in 1 .. Len(d) |-> d[i].updates]

\* a chip after n more render steps
Rendered(chip, n) == [chip EXCEPT !.updates = @ + n]

\* the chips with `value` applied to the register behind port `offset`
Applied(d, offset, value) ==
    CASE offset = 0 -> [d EXCEPT ![1] = data_w(@, value)]
      [] offset = 1 -> [d EXCEPT ![1] = control_w(@, value)]
      [] offset = 2 -> [d EXCEPT ![2] = data_w(@, value)]
      [] offset = 3 -> [d EXCEPT ![2] = control_w(@, value)]

\* C1: in each of the four chip write handlers, when the channel did not just
\* wake up, the byte reaches the chip only once the catch-up is over: the
\* render clock is at or past now when the byte is applied, the samples the
\* catch-up rendered were taken from the registers as they were before the
\* write, and no later render step starts at a time before the timestamp of
\* the last write.
C1_WriteAfterCatchUp ==
    [][/\ (op'.kind = "write" /\ ~op'.woke) =>
             /\ last_rendered_ms' >= now'
             /\ devices' = Applied([i \in 1 .. 2 |->
                                       Rendered(devices[i], op'.steps)],
                                   op'.a, op'.value)
             /\ (op'.steps > 0 =>
                     /\ resamplers'[1].sample =
                            devices[1].data + devices[2].data
                     /\ resamplers'[2].sample =
                            devices[1].control + devices[2].control
                     /\ buf' = SoundStreamSample(devices[2]))
       /\ (RenderCounts(devices') # RenderCounts(devices) =>
               last_rendered_ms >= last_write_ms)]_vars

\* a write to the left data port changed the register after a catch-up that
\* rendered from the old value
C1_Witness ==
    /\ op.kind = "write" /\ ~op.woke /\ op.a = 0 /\ op.steps >= 2
    /\ devices[1].data = 85 /\ devices[2].data = 0
    /\ resamplers[1].sample = 0

\* C2: an audio callback asked for N frames hands exactly N frames to the
\* channel before it returns.
C2_DeliversRequested ==
    op.kind = "callback" => op.delivered = op.n

\* C3: a catch-up entered with the render clock r < now, the channel not
\* waking, performs exactly ceil((now - r) / quantum) render steps.
C3_RendersAllOwed ==
    (op.kind = "write" /\ ~op.woke /\ op.from < now) =>
        op.steps = CeilDiv(now - op.from, ms_per_render)

\* C4: when a catch-up completes the render clock is at or past now and less
\* than one render quantum past it.
C4_WithinOneQuantum ==
    op.kind = "write" =>
        /\ now <= last_rendered_ms
        /\ last_rendered_ms < now + ms_per_render

\* C5, as claimed: no operation leaves the render clock lower than it was.
C5_Monotonic ==
    [][last_rendered_ms' >= last_rendered_ms]_vars

\* C5, amended: an operation lowers the render clock only by setting it to
\* now, which a waking catch-up and an audio callback do when the clock had
\* run ahead of now; a catch-up that does not wake never lowers it.
C5_LoweredOnlyToNow ==
    [][\/ last_rendered_ms' >= last_rendered_ms
       \/ /\ last_rendered_ms' = now'
          /\ (op'.kind = "callback" \/ (op'.kind = "write" /\ op'.woke))]_vars

\* an audio callback found the render clock ahead of now and set it back
C5_Witness ==
    op.kind = "callback" /\ op.from > last_rendered_ms

\* C6: after every audio callback, whatever was asked for and whatever the
\* fifo held, the render clock equals now.
C6_CallbackSyncsClock ==
    op.kind = "callback" => last_rendered_ms = now

\* a callback for zero frames found the clock behind now
C6_Witness ==
    op.kind = "callback" /\ op.n = 0 /\ op.from < now /\ now > 0

\* C7: the frames taken from the fifo reach the channel in the order they
\* were put in, each once: what was delivered from the fifo, followed by what
\* the fifo still holds, is the sequence of frames enqueued, and no frame is
\* in it twice.
C7_FifoOrder ==
    /\ DeliveredFromFifo \o fifo = enqueued
    /\ \A i, j \in 1 .. Len(enqueued) :
           i < j => enqueued[i].seq < enqueued[j].seq

\* one callback took two frames from the fifo
C7_Witness ==
    /\ op.kind = "callback" /\ op.delivered = 2
    /\ Len(DeliveredFromFifo) = 2

\* C8: a catch-up that finds the channel waking from sleep renders nothing on
\* either chip or resampler, puts nothing in the fifo, leaves the fifo as it
\* was and sets the render clock to now.
C8_WakeSkipsRendering ==
    [][(op'.kind = "write" /\ op'.woke) =>
           /\ RenderCounts(devices') = RenderCounts(devices)
           /\ resamplers' = resamplers
           /\ buf' = buf
           /\ fifo' = fifo
           /\ enqueued' = enqueued
           /\ sink' = sink
           /\ last_rendered_ms' = now']_vars

\* the channel woke with the clock three quanta behind and frames in the fifo
C8_Witness ==
    /\ op.kind = "write" /\ op.woke
    /\ now - op.from >= 3 * ms_per_render
    /\ fifo # <<>>

\* C9: a catch-up entered with the render clock equal to now produces no
\* frame and leaves the render clock, the fifo, both chips and both
\* resamplers as they were (the handler then applies its byte).
C9_CatchUpAtNow ==
    [][(op'.kind = "write" /\ last_rendered_ms = now) =>
           /\ last_rendered_ms' = last_rendered_ms
           /\ fifo' = fifo
           /\ enqueued' = enqueued
           /\ resamplers' = resamplers
           /\ buf' = buf
           /\ devices' = Applied(devices, op'.a, op'.value)]_vars

\* a write arrived with the clock at now, the channel awake, frames queued
C9_Witness ==
    /\ op.kind = "write" /\ ~op.woke /\ op.from = now /\ now > 0
    /\ fifo # <<>>

\* C10: on the standalone card a read at offset 4 returns 7Fh whatever was
\* written before, a read at any offset of the read handler's sixteen ports
\* other than 4, 0Ah and 0Bh returns FFh, and no read changes the detection
\* register.
C10_DetectionReads ==
    [][op'.kind = "detect_read" =>
           /\ is_standalone_gameblaster
           /\ op'.a \in 0 .. 15
           /\ (op'.a = 4 => op'.value = 127)
           /\ (op'.a \notin {4, 10, 11} => op'.value = 255)
           /\ cms_detect_register' = cms_detect_register]_vars

\* offset 4 read as 7Fh with 55h in the detection register and in a chip
C10_Witness ==
    /\ op.kind = "detect_read" /\ op.a = 4 /\ op.value = 127
    /\ cms_detect_register = 85
    /\ is_open /\ devices[1].data = 85

\* C11: on the standalone card a read at offset 0Ah or 0Bh returns the byte
\* of the most recent write to offset 6 or 7, whatever byte that was; a
\* write to any other offset of the detection write handler, and a write to
\* any of the four chip ports, leaves the detection register unchanged; and
\* no access to a detection port changes the render clock or the fifo.
C11_DetectionRegister ==
    [][/\ (op'.kind = "detect_read" /\ op'.a \in {10, 11}
               /\ detect_written # <<>>) =>
              op'.value = detect_written[1]
       /\ (op'.kind = "detect_write" =>
               cms_detect_register' = IF op'.a \in {6, 7}
                                      THEN op'.value
                                      ELSE cms_detect_register)
       /\ (op'.kind = "write" => cms_detect_register' = cms_detect_register)
       /\ (op'.kind \in {"detect_read", "detect_write"} =>
               /\ last_rendered_ms' = last_rendered_ms
               /\ fifo' = fifo
               /\ enqueued' = enqueued)]_vars

\* 55h read back at offset 0Bh on a card whose clock has run and whose fifo
\* holds a frame, bytes having gone to the right chip since
C11_Witness ==
    /\ op.kind = "detect_read" /\ op.a = 11 /\ op.value = 85
    /\ detect_written = <<85>>
    /\ last_rendered_ms > 0 /\ fifo # <<>>
    /\ devices[2].control = 85

\* C12: after an Open that succeeds, whichever the card, the four chip write
\* handlers are installed at base_port + 0 .. + 3, and the detection read
\* and write handlers are installed exactly when the card is the standalone
\* Game Blaster: also when the device was open before, as the other card.
C12_HandlersInstalled ==
    [][(op'.kind = "open" /\ ~aborted') =>
           /\ is_open'
           /\ write_handlers' = <<{op'.port}, {op'.port + 1},
                                  {op'.port + 2}, {op'.port + 3}>>
           /\ read_handler_for_detection' =
                  IF op'.card = "gb" THEN op'.port .. op'.port + 15 ELSE {}
           /\ write_handler_for_detection' =
                  IF op'.card = "gb" THEN op'.port + 4 .. op'.port + 15
                                     ELSE {}]_vars

\* a device open as a Game Blaster was opened again as a Sound Blaster
C12_Witness ==
    /\ op.kind = "open" /\ op.was_open /\ op.was_standalone
    /\ op.card = "sb1" /\ is_open
    /\ write_handlers[4] = {op.port + 3}

\* the channel, the chips and the resamplers exist exactly when the device
\* is open
OpenIffParts(e) ==
    /\ e.is_open = e.channel.exists
    /\ e.is_open = e.channel.registered
    /\ e.is_open = (e.devices # <<>>)
    /\ e.is_open = (e.resamplers # <<>>)

\* C13: Close on a device that is not open changes nothing; Close on an open
\* device leaves it not open, every handler uninstalled, the channel
\* disabled and deregistered before it is let go, the chips and resamplers
\* destroyed; Close after Close is Close; and in every state between two
\* operations the device is open exactly when its channel, chips and
\* resamplers exist.
C13_Close ==
    [][/\ (op'.kind = "close" /\ ~is_open) => UNCHANGED self_vars
       /\ (op'.kind = "close" /\ is_open) =>
              /\ ~is_open'
              /\ write_handlers' = <<{}, {}, {}, {}>>
              /\ read_handler_for_detection' = {}
              /\ write_handler_for_detection' = {}
              /\ channel' = NoChannel
              /\ \E i \in 1 .. Len(CloseStates(Self)) :
                     LET c == CloseStates(Self)[i].channel
                     IN  c.exists /\ c.asleep /\ ~c.registered
              /\ devices' = <<>>
              /\ resamplers' = <<>>
       /\ Close(Close(Self)) = Close(Self)
       /\ OpenIffParts(Self)
       /\ OpenIffParts(Self)']_vars

\* a Game Blaster open at 220h was closed
C13_Witness ==
    /\ op.kind = "close" /\ op.was_open /\ ~is_open
    /\ is_standalone_gameblaster /\ base_port = 544

\* the ports either card allows
KnownPorts == valid_gb_ports \cup valid_cms_ports

\* a device whose Open stopped at the assertion on the port
Rejected(e) ==
    /\ e.aborted
    /\ ~e.is_open
    /\ e.write_handlers = <<{}, {}, {}, {}>>
    /\ e.read_handler_for_detection = {}
    /\ e.write_handler_for_detection = {}

\* C14: an Open whose port is not in the list of the selected card stops at
\* the assertion on the port, with no handler installed and the device not
\* open, whatever state the device was in; so it is for the Sound Blaster
\* add-on at 210h, 230h and 250h, which only the standalone card allows.
C14_InvalidPortRejected ==
    /\ (op.kind = "open"
            /\ op.port \notin (IF op.card = "gb" THEN valid_gb_ports
                                                 ELSE valid_cms_ports))
           => Rejected(Self)
    /\ \A port_choice \in KnownPorts, card_choice \in CardChoices,
          filter_choice \in FilterChoices :
           LET valid == IF card_choice = "gb" THEN valid_gb_ports
                                              ELSE valid_cms_ports
               o == Open(Self, port_choice, card_choice, filter_choice,
                         FALSE)
           IN  /\ port_choice \notin valid => Rejected(o)
               /\ (port_choice \in valid /\ ~aborted) =>
                      ~o.aborted /\ o.is_open
    /\ \A port_choice \in {528, 560, 592} :
           Rejected(Open(Self, port_choice, "sb1", "on", FALSE))

\* a device that was open was opened as a Sound Blaster at 210h
C14_Witness ==
    /\ op.kind = "open" /\ op.card = "sb1" /\ op.port = 528 /\ op.was_open
    /\ aborted /\ ~is_open /\ base_port = 528

\* C15: an Open whose cms_filter setting is neither boolean-like nor a
\* custom filter that parses succeeds all the same, with the low-pass filter
\* of order 1 at 6 kHz switched on and the persisted setting rewritten to
\* "on"; a boolean-like false switches the filter off and leaves the
\* persisted setting as it was.
C15_FilterFallback ==
    (op.kind = "open" /\ ~aborted) =>
        /\ op.filter = "banana" =>
               /\ is_open
               /\ channel.lowpass = "on"
               /\ channel.order = 1 /\ channel.cutoff_hz = 6000
               /\ cms_filter = "on"
        /\ op.filter = "off" =>
               /\ is_open
               /\ channel.lowpass = "off"
               /\ cms_filter = "off"

\* a device was opened with the setting "banana"
C15_Witness ==
    /\ op.kind = "open" /\ op.filter = "banana" /\ op.card = "sb1"
    /\ is_open /\ channel.lowpass = "on" /\ cms_filter = "on"

\* C17: at the end of the Scenario (a Game Blaster opened at 220h, a data
\* byte and a control byte to the left chip at time 0, no write until
\* ScenarioTime, then a callback for one frame) exactly one frame has been
\* handed to the channel and, the render quantum being shorter than
\* ScenarioTime, the fifo is not empty.
C17_Scenario ==
    scenario = "asked" =>
        /\ op.delivered = 1
        /\ Len(sink) = 1
        /\ (ms_per_render < ScenarioTime => fifo # <<>>)

HandlerInstalled(e) ==
    \/ \E i \in 1 .. 4 : e.write_handlers[i] # {}
    \/ e.read_handler_for_detection # {}
    \/ e.write_handler_for_detection # {}

\* C19: in the states an open device goes through in Close, as long as any
\* of the six port handlers is installed the channel (its enabled state, its
\* registration, the handle), both chips and both resamplers are as they
\* were when Close began; the walk starts with a handler installed and ends
\* in the state Close leaves the device in.
C19_HandlersFirst ==
    [][(op'.kind = "close" /\ is_open) =>
           LET s == CloseStates(Self)
           IN  /\ HandlerInstalled(Self)
               /\ \A i \in 1 .. Len(s) :
                      HandlerInstalled(s[i]) =>
                          /\ s[i].channel = channel
                          /\ s[i].devices = devices
                          /\ s[i].resamplers = resamplers
               /\ \E i \in 1 .. Len(s) :
                      /\ ~HandlerInstalled(s[i])
                      /\ s[i].channel = channel
                      /\ s[i].devices = devices
                      /\ s[i].resamplers = resamplers
               /\ SetSelf(s[Len(s)])]_vars

\* a device open as a Sound Blaster at 280h was closed: its handlers went
\* first
C19_Witness ==
    /\ op.kind = "close" /\ op.was_open /\ ~is_open
    /\ ~is_standalone_gameblaster /\ base_port = 640

Min(a, b) == IF a < b THEN a ELSE b

\* the first k frames of q as the channel records them when they come from
\* the fifo
FromFifo(q, k) == [i \in 1 .. k |-> [frame |-> q[i], from |-> "fifo"]]

\* C20: frames enter the fifo only in a chip write's catch-up, at its back,
\* and leave it only in an audio callback, from its front: a callback asked
\* for N frames takes exactly min(N, length) of them, hands them to the
\* channel in fifo order before any frame it renders itself, renders only
\* when it has left the fifo empty, and puts nothing in the fifo; so the
\* channel gets the frames in the order they were generated.
C20_QueueDiscipline ==
    [][/\ op'.kind = "callback" =>
              LET k == Min(op'.n, Len(fifo))
              IN  /\ fifo' = SubSeq(fifo, k + 1, Len(fifo))
                  /\ enqueued' = enqueued
                  /\ Len(sink') >= Len(sink) + k
                  /\ SubSeq(sink', 1, Len(sink) + k) =
                         sink \o FromFifo(fifo, k)
                  /\ \A i \in Len(sink) + k + 1 .. Len(sink') :
                         sink'[i].from = "live"
                  /\ (op'.steps > 0 => fifo' = <<>>)
       /\ op'.kind = "write" =>
              /\ sink' = sink
              /\ Len(fifo') >= Len(fifo)
              /\ SubSeq(fifo', 1, Len(fifo)) = fifo
              /\ enqueued' =
                     enqueued \o SubSeq(fifo', Len(fifo) + 1, Len(fifo'))
       /\ op'.kind \notin {"callback", "write"} =>
              fifo' = fifo /\ sink' = sink
       /\ \A i, j \in 1 .. Len(sink') :
              i < j => sink'[i].frame.seq < sink'[j].frame.seq]_vars

\* a callback asked for two frames took the one the fifo held and rendered
\* the other
C20_Witness ==
    /\ op.kind = "callback" /\ op.n = 2 /\ op.delivered = 2
    /\ sink[Len(sink) - 1].from = "fifo"
    /\ sink[Len(sink)].from = "live"
    /\ fifo = <<>>

Busy(path) == path.at # "idle"

=============================================================================
